---- MODULE Spec2Model ----
(***************************************************************************)
(* A model of data-api-client: the client facade and its query pipeline    *)
(* (src/index.js) and the PostgreSQL escaper (src/src/pg-escape.ts).       *)
(*                                                                         *)
(* JavaScript values are records tagged by the field t:                    *)
(*   undefined, null, string, boolean, number, array, object, buffer,      *)
(*   function.  An object carries its keys in insertion order (keys) and   *)
(*   a function from key to value (v); an absent property is a key that    *)
(*   is not in the domain.  A thrown error is the record Throw(msg).       *)
(***************************************************************************)
EXTENDS Integers, Sequences, FiniteSets, TLC

VARIABLES
  pc,          \* position of the client / the query call
  params,      \* the argument of module.exports(params)
  config,      \* the client configuration built by module.exports
  args,        \* the arguments of the query call, <<args[0], args[1]>>
  parameters,  \* query's local: the annotated parameters
  payload,     \* query's local `params`: the request handed to the RDS call
  nExecute,    \* number of RDS.executeStatement invocations of this call
  nBatch,      \* number of RDS.batchExecuteStatement invocations of this call
  response,    \* what the awaited remote call resolved to
  output,      \* the value the query promise resolved to
  hydrateColumnNames, \* query's local: the resolved hydration flag
  err,         \* the error the constructor or the call ended with
  fnIn,        \* input of the pure function under test
  fnOut        \* its result

vars == <<pc, params, config, args, parameters, payload, nExecute, nBatch,
          response, output, hydrateColumnNames, err, fnIn, fnOut>>

-----------------------------------------------------------------------------
(* Bounds *)

MaxRows == 2     \* rows in a result set
MaxLen == 3      \* characters in a string given to the escaper
MaxItems == 2    \* elements in an array given to literal()
MaxKeys == 2     \* keys in a plain parameter object
MaxCalls == 2    \* query calls in flight on one client

-----------------------------------------------------------------------------
(* JavaScript values *)

None == [t |-> "none"]
Undefined == [t |-> "undefined"]
Null == [t |-> "null"]
Str(s) == [t |-> "string", v |-> s]
Bool(b) == [t |-> "boolean", v |-> b]
\* a number: finite m/2 (k = "fin"), NaN, Infinity, or 1e21 (k = "big")
Num(k, m) == [t |-> "number", k |-> k, m |-> m]
Whole(n) == Num("fin", 2 * n)
Arr(s) == [t |-> "array", v |-> s]
Obj(keys, f) == [t |-> "object", keys |-> keys, v |-> f]
EmptyObj == Obj(<<>>, <<>>)
Buffer == [t |-> "buffer"]
Function == [t |-> "function"]
Throw(msg) == [t |-> "throw", msg |-> msg]

IsThrow(x) == x.t = "throw"

TypeOf(x) ==
  IF x.t \in {"null", "array", "object", "buffer"} THEN "object" ELSE x.t

IsArray(x) == x.t = "array"

Truthy(x) ==
  CASE x.t \in {"undefined", "null"} -> FALSE
    [] x.t = "string" -> x.v # ""
    [] x.t = "boolean" -> x.v
    [] x.t = "number" -> x.k # "nan" /\ (x.k = "fin" => x.m # 0)
    [] OTHER -> TRUE

\* the property read o.key (o is neither null nor undefined)
Get(o, key) ==
  IF o.t = "object" /\ key \in DOMAIN o.v THEN o.v[key] ELSE Undefined

SeqToSet(s) == {s[i] : i \in 1..Len(s)}

RECURSIVE Without(_, _)
Without(s, drop) ==
  IF s = <<>> THEN <<>>
  ELSE IF Head(s) \in drop THEN Without(Tail(s), drop)
  ELSE <<Head(s)>> \o Without(Tail(s), drop)

\* Object.assign(a, b) on a fresh target
Assign(a, b) ==
  Obj(a.keys \o Without(b.keys, SeqToSet(a.keys)),
      [k \in SeqToSet(a.keys) \cup SeqToSet(b.keys) |->
         IF k \in SeqToSet(b.keys) THEN b.v[k] ELSE a.v[k]])

omit(obj, values) ==
  Obj(Without(obj.keys, values),
      [k \in SeqToSet(obj.keys) \ values |-> obj.v[k]])

-----------------------------------------------------------------------------
(* Request parsing *)

parseSQL(a) ==
  IF TypeOf(a[1]) = "string" THEN a[1]
  ELSE IF TypeOf(a[1]) = "object"
    THEN IF a[1].t = "null" THEN Throw("TypeError")
         ELSE IF TypeOf(Get(a[1], "sql")) = "string" THEN Get(a[1], "sql")
         ELSE Throw("No 'sql' statement provided.")
  ELSE Throw("No 'sql' statement provided.")

parseParams(a) ==
  IF IsArray(Get(a[1], "parameters")) THEN Get(a[1], "parameters")
  ELSE IF TypeOf(Get(a[1], "parameters")) = "object"
    THEN Arr(<<Get(a[1], "parameters")>>)
  ELSE IF IsArray(a[2]) THEN a[2]
  ELSE IF TypeOf(a[2]) = "object" THEN Arr(<<a[2]>>)
  ELSE IF Truthy(Get(a[1], "parameters"))
    THEN Throw("'parameters' must be an object or array")
  ELSE IF Truthy(a[2]) THEN Throw("Parameters must be an object or array")
  ELSE Arr(<<>>)

\* parseDatabase with the configured default taking precedence over the call
parseDatabase_configFirst(cfg, a) ==
  IF Truthy(cfg.database) THEN cfg.database
  ELSE IF TypeOf(Get(a[1], "database")) = "string" THEN Get(a[1], "database")
  ELSE IF Truthy(Get(a[1], "database")) THEN Throw("'database' must be a string.")
  ELSE Throw("No 'database' provided.")

parseDatabase(cfg, a) ==
  IF TypeOf(Get(a[1], "database")) = "string" THEN Get(a[1], "database")
  ELSE IF Truthy(Get(a[1], "database")) THEN Throw("'database' must be a string.")
  ELSE IF Truthy(cfg.database) THEN cfg.database
  ELSE Throw("No 'database' provided.")

\* parseHydrate without the type check
parseHydrate_unchecked(cfg, a) ==
  IF TypeOf(Get(a[1], "hydrateColumnNames")) = "boolean"
    THEN Get(a[1], "hydrateColumnNames")
  ELSE cfg.hydrateColumnNames

parseHydrate(cfg, a) ==
  IF TypeOf(Get(a[1], "hydrateColumnNames")) = "boolean"
    THEN Get(a[1], "hydrateColumnNames")
  ELSE IF Truthy(Get(a[1], "hydrateColumnNames"))
    THEN Throw("'hydrateColumnNames' must be a boolean.")
  ELSE cfg.hydrateColumnNames

prepareParams(cfg, a) ==
  Assign(Obj(<<"secretArn", "resourceArn">>,
             [secretArn |-> cfg.secretArn, resourceArn |-> cfg.resourceArn]),
         IF TypeOf(a[1]) = "object" THEN omit(a[1], {"hydrateColumnNames"})
         ELSE EmptyObj)

-----------------------------------------------------------------------------
(* Parameter annotation *)

\* parseInt(val) === val, for a number val
ParseIntSame(val) ==
  \* String(val) is a decimal numeral; parseInt stops at the first character
  \* that is not a digit ("." of 1.5, "e" of 1e+21) and yields NaN for
  \* "NaN" and "Infinity"
  val.k = "fin" /\ 2 * (val.m \div 2) = val.m

\* parseFloat(val) === val, for a number val
ParseFloatSame(val) == val.k # "nan"

\* getType with the double test ahead of the integer test
getType_doubleFirst(val) ==
  IF TypeOf(val) = "string" THEN Str("stringValue")
  ELSE IF TypeOf(val) = "boolean" THEN Str("booleanValue")
  ELSE IF TypeOf(val) = "number" /\ ParseFloatSame(val) THEN Str("doubleValue")
  ELSE IF TypeOf(val) = "number" /\ ParseIntSame(val) THEN Str("longValue")
  ELSE IF val.t = "null" THEN Str("isNull")
  ELSE IF val.t = "buffer" THEN Str("blobValue")
  ELSE Undefined

getType(val) ==
  IF TypeOf(val) = "string" THEN Str("stringValue")
  ELSE IF TypeOf(val) = "boolean" THEN Str("booleanValue")
  ELSE IF TypeOf(val) = "number" /\ ParseIntSame(val) THEN Str("longValue")
  ELSE IF TypeOf(val) = "number" /\ ParseFloatSame(val) THEN Str("doubleValue")
  ELSE IF val.t = "null" THEN Str("isNull")
  ELSE IF val.t = "buffer" THEN Str("blobValue")
  ELSE Undefined

formatType(name, value, type) ==
  IF Truthy(type)
    THEN Obj(<<"name", "value">>,
             [name |-> Str(name),
              value |-> Obj(<<type.v>>, [k \in {type.v} |-> value])])
  ELSE Throw("'" \o name \o "'' is an invalid type")

\* the reduce of formatParams over keys i..Len(p.keys), or the first throw
RECURSIVE formatParamsFrom(_, _)
formatParamsFrom(p, i) ==
  IF i > Len(p.keys) THEN Arr(<<>>)
  ELSE LET x == p.keys[i]
           np == formatType(x, p.v[x], getType(p.v[x]))
       IN IF IsThrow(np) THEN np
          ELSE LET rest == formatParamsFrom(p, i + 1)
               IN IF IsThrow(rest) THEN rest ELSE Arr(<<np>> \o rest.v)

formatParams(p) == formatParamsFrom(p, 1)

\* Object.keys(p).length === 2 && p.name && p.value
IsPreShaped(p) ==
  Len(p.keys) = 2 /\ Truthy(Get(p, "name")) /\ Truthy(Get(p, "value"))

\* the reduce of annotateParams over the sequence s: an array, or a throw
RECURSIVE annotateSeq(_)
annotateSeq(s) ==
  IF s = <<>> THEN Arr(<<>>)
  ELSE LET p == Head(s)
           one == IF IsArray(p)
                    THEN LET inner == annotateSeq(p.v)
                         IN IF IsThrow(inner) THEN inner ELSE Arr(<<inner>>)
                  ELSE IF p.t \in {"null", "undefined"} THEN Throw("TypeError")
                  ELSE IF p.t \in {"number", "boolean"} THEN Arr(<<>>)
                  ELSE IF IsPreShaped(p) THEN Arr(<<p>>)
                  ELSE formatParams(p)
       IN IF IsThrow(one) THEN one
          ELSE LET rest == annotateSeq(Tail(s))
               IN IF IsThrow(rest) THEN rest ELSE Arr(one.v \o rest.v)

annotateParams(p) == annotateSeq(p.v)

\* the batch test applied to the parameter array instead of its first element
isBatchOf_wholeArray(ps) == Len(ps.v) > 0 /\ IsArray(ps)

\* query's isBatch
isBatchOf(ps) == Len(ps.v) > 0 /\ IsArray(ps.v[1])

-----------------------------------------------------------------------------
(* Result hydration *)

\* the key a computed property name [x] denotes
KeyOf(x) == IF x.t = "string" THEN x.v ELSE "undefined"

\* acc.concat(x)
Concat(acc, x) == IF IsArray(x) THEN Arr(acc.v \o x.v) ELSE Arr(Append(acc.v, x))

\* the scan with its null test inverted (=== for !==)
RECURSIVE discover_nullOnly(_, _, _)
discover_nullOnly(field, k, cur) ==
  IF k > Len(field.keys) THEN cur
  ELSE LET type == field.keys[k]
       IN discover_nullOnly(field, k + 1,
            IF type # "isNull" /\ field.v[type] = Null THEN Str(type) ELSE cur)

\* Object.keys(field).map(...): the tag left in fmap[i].field after the scan
RECURSIVE discover(_, _, _)
discover(field, k, cur) ==
  IF k > Len(field.keys) THEN cur
  ELSE LET type == field.keys[k]
       IN discover(field, k + 1,
            IF type # "isNull" /\ field.v[type] # Null THEN Str(type) ELSE cur)

\* rec.reduce(...) from field i on: [acc, fmap], or a throw
RECURSIVE reduceFields(_, _, _, _, _)
reduceFields(rec, i, acc, fmap, columns) ==
  IF i > Len(rec.v) THEN [t |-> "row", acc |-> acc, fmap |-> fmap]
  ELSE
    LET field == rec.v[i]
        emit(m, val) ==
          IF Truthy(columns)
            THEN Assign(acc, Obj(<<KeyOf(Get(m[i], "label"))>>,
                                 [k \in {KeyOf(Get(m[i], "label"))} |-> val]))
            ELSE Concat(acc, val)
    IN IF Get(field, "isNull") = Bool(TRUE)
         THEN IF Truthy(columns) /\ i > Len(fmap) THEN Throw("TypeError")
              ELSE reduceFields(rec, i + 1, emit(fmap, Null), fmap, columns)
       ELSE IF i <= Len(fmap) /\ Truthy(Get(fmap[i], "field"))
         THEN reduceFields(rec, i + 1,
                emit(fmap, Get(field, Get(fmap[i], "field").v)), fmap, columns)
       ELSE IF i > Len(fmap) THEN Throw("TypeError")
       ELSE
         LET found == discover(field, 1, Get(fmap[i], "field"))
             fmap2 == IF found = Undefined THEN fmap
                      ELSE [fmap EXCEPT ![i] =
                              Assign(@, Obj(<<"field">>, [field |-> found]))]
         IN reduceFields(rec, i + 1,
              emit(fmap2, Get(field, KeyOf(found))), fmap2, columns)

\* recs.map(...) from record r on, threading the field map
RECURSIVE mapRecords(_, _, _, _)
mapRecords(recs, r, fmap, columns) ==
  IF r > Len(recs.v) THEN Arr(<<>>)
  ELSE LET row == reduceFields(recs.v[r], 1,
                    IF Truthy(columns) THEN EmptyObj ELSE Arr(<<>>),
                    fmap, columns)
       IN IF IsThrow(row) THEN row
          ELSE LET rest == mapRecords(recs, r + 1, row.fmap, columns)
               IN IF IsThrow(rest) THEN rest ELSE Arr(<<row.acc>> \o rest.v)

formatRecords(recs, columns) ==
  IF recs.t # "array" \/ Len(recs.v) = 0 THEN Throw("TypeError")
  ELSE IF Truthy(columns) /\ Len(columns.v) < Len(recs.v[1].v)
    THEN Throw("TypeError")
  ELSE
    LET fmap == [i \in 1..Len(recs.v[1].v) |->
                   IF Truthy(columns)
                     THEN Obj(<<"label">>, [label |-> Get(columns.v[i], "label")])
                     ELSE EmptyObj]
    IN mapRecords(recs, 1, fmap, columns)

formatResults(res, hydrate, includeMeta) ==
  LET columnMetadata == Get(res, "columnMetadata")
      numberOfRecordsUpdated == Get(res, "numberOfRecordsUpdated")
      records == Get(res, "records")
      recs == formatRecords(records,
                IF Truthy(hydrate) THEN columnMetadata ELSE Bool(FALSE))
  IN IF IsThrow(recs) THEN recs
     ELSE Assign(IF includeMeta
                   THEN Obj(<<"columnMetadata">>, [columnMetadata |-> columnMetadata])
                   ELSE EmptyObj,
                 Obj(<<"numberOfRecordsUpdated", "records">>,
                     [numberOfRecordsUpdated |-> numberOfRecordsUpdated,
                      records |-> recs]))

-----------------------------------------------------------------------------
(* Instantiation *)

\* module.exports: the configuration, or the error the constructor throws
MakeConfig(p) ==
  LET options == IF TypeOf(Get(p, "options")) = "object" THEN Get(p, "options")
                 ELSE IF Get(p, "options") # Undefined
                   THEN Throw("'options' must be an object")
                 ELSE EmptyObj
      secretArn == IF TypeOf(Get(p, "secretArn")) = "string"
                     THEN Get(p, "secretArn")
                   ELSE Throw("'secretArn' string value required")
      resourceArn == IF TypeOf(Get(p, "resourceArn")) = "string"
                       THEN Get(p, "resourceArn")
                     ELSE Throw("'resourceArn' string value required")
      database == IF TypeOf(Get(p, "database")) = "string" THEN Get(p, "database")
                  ELSE IF Get(p, "database") # Undefined
                    THEN Throw("'database' must be a string")
                  ELSE Null
      hydrate == IF TypeOf(Get(p, "hydrateColumnNames")) = "boolean"
                   THEN Bool(FALSE) ELSE Bool(TRUE)
  IN IF IsThrow(options) THEN options
     ELSE IF IsThrow(secretArn) THEN secretArn
     ELSE IF IsThrow(resourceArn) THEN resourceArn
     ELSE IF IsThrow(database) THEN database
     ELSE [t |-> "config", secretArn |-> secretArn, resourceArn |-> resourceArn,
           database |-> database, hydrateColumnNames |-> hydrate,
           RDS |-> options]

-----------------------------------------------------------------------------
(* The query call *)

\* query, up to its await: the locals and the request, or the error thrown
assemble(cfg, a) ==
  LET sql == parseSQL(a)
      hydrate == parseHydrate(cfg, a)
      raw == parseParams(a)
      annotated == IF IsThrow(raw) THEN raw ELSE annotateParams(raw)
      isBatch == isBatchOf(annotated)
      database == parseDatabase(cfg, a)
  IN IF IsThrow(sql) THEN sql
     ELSE IF IsThrow(hydrate) THEN hydrate
     ELSE IF IsThrow(annotated) THEN annotated
     ELSE IF IsThrow(database) THEN database
     ELSE [t |-> "request",
           hydrateColumnNames |-> hydrate,
           parameters |-> annotated,
           isBatch |-> isBatch,
           params |->
             Assign(Assign(Assign(prepareParams(cfg, a),
               Obj(<<"database", "sql">>, [database |-> database, sql |-> sql])),
               IF Len(annotated.v) > 0
                 THEN Obj(<<IF isBatch THEN "parameterSets" ELSE "parameters">>,
                          [k \in {IF isBatch THEN "parameterSets" ELSE "parameters"}
                             |-> annotated])
                 ELSE EmptyObj),
               IF Truthy(hydrate) /\ ~isBatch
                 THEN Obj(<<"includeResultMetadata">>,
                          [includeResultMetadata |-> Bool(TRUE)])
                 ELSE EmptyObj)]

-----------------------------------------------------------------------------
(* Inputs *)

\* the object with the keys of order that f does not map to None
Pick(order, f) ==
  Obj(Without(order, {k \in DOMAIN f : f[k] = None}),
      [k \in {x \in DOMAIN f : f[x] # None} |-> f[k]])

SeqsUpTo(S, n) == UNION {[1..k -> S] : k \in 0..n}

CtorParams ==
  {Pick(<<"secretArn", "resourceArn", "database", "hydrateColumnNames", "options">>,
        [secretArn |-> s, resourceArn |-> r, database |-> d,
         hydrateColumnNames |-> h, options |-> o]) :
     s \in {None, Str("arn:secret"), Whole(7)},
     r \in {None, Str("arn:cluster")},
     d \in {None, Str("db"), Whole(5)},
     h \in {None, Bool(TRUE), Bool(FALSE), Str("yes")},
     o \in {None, EmptyObj, Str("bad")}}

SQL == Str("SELECT * FROM t WHERE id = :id")

OneParam(n) == Obj(<<"id">>, [id |-> Whole(n)])

\* what a caller may give as parameters
ParamInputs ==
  {Undefined,
   Arr(<<>>),
   OneParam(1),
   Arr(<<OneParam(1)>>),
   Arr(<<Arr(<<OneParam(1)>>), Arr(<<OneParam(2)>>)>>),
   Str("id"),
   Whole(0),
   Null,
   Obj(<<"id">>, [id |-> Function])}

QueryOptions ==
  {Pick(<<"sql", "parameters", "database", "hydrateColumnNames",
          "includeResultMetadata">>,
        [sql |-> q, parameters |-> p, database |-> d,
         hydrateColumnNames |-> h, includeResultMetadata |-> m]) :
     q \in {None, SQL},
     p \in (ParamInputs \ {Undefined}) \cup {None},
     d \in {None, Str("other"), Whole(5), Whole(0)},
     h \in {None, Bool(TRUE), Bool(FALSE), Str("yes")},
     m \in {None, Bool(TRUE)}}

\* the two call forms, and the call without arguments
QueryArgs ==
  {<<SQL, p>> : p \in ParamInputs}
    \cup {<<o, Undefined>> : o \in QueryOptions}
    \cup {<<Undefined, Undefined>>}

NullField == Obj(<<"isNull">>, [isNull |-> Bool(TRUE)])
Tagged(tag, val) == Obj(<<tag>>, [k \in {tag} |-> val])
Column(label) == Obj(<<"label">>, [label |-> Str(label)])

\* the responses the remote call may resolve to for the request req
Responses(req) ==
  {Pick(<<"columnMetadata", "numberOfRecordsUpdated", "records">>,
        [columnMetadata |->
           IF Get(req, "includeResultMetadata") = Bool(TRUE)
             THEN Arr(<<Column("col")>>) ELSE None,
         numberOfRecordsUpdated |-> Whole(n),
         records |-> Arr([i \in DOMAIN rows |-> Arr(<<rows[i]>>)])]) :
     n \in {0, 1},
     rows \in SeqsUpTo({NullField, Tagged("stringValue", Str("x"))}, MaxRows)}

-----------------------------------------------------------------------------
(* The client and one query call *)

Init ==
  /\ pc = "new"
  /\ params = None
  /\ config = None
  /\ args = None
  /\ parameters = None
  /\ payload = None
  /\ nExecute = 0
  /\ nBatch = 0
  /\ response = None
  /\ output = None
  /\ hydrateColumnNames = None
  /\ err = None
  /\ fnIn = None
  /\ fnOut = None

\* module.exports(p)
Construct(p) ==
  /\ pc = "new"
  /\ params' = p
  /\ LET c == MakeConfig(p)
     IN IF IsThrow(c)
          THEN pc' = "ctor_failed" /\ err' = c /\ config' = config
          ELSE pc' = "ready" /\ err' = err /\ config' = c
  /\ UNCHANGED <<args, parameters, payload, nExecute, nBatch, response, output,
                 hydrateColumnNames, fnIn, fnOut>>

\* query(config, ...a) up to its await: validation, assembly, the remote call
Query(a) ==
  /\ pc = "ready"
  /\ args' = a
  /\ LET q == assemble(config, a)
     IN IF IsThrow(q)
          THEN /\ pc' = "failed"
               /\ err' = q
               /\ UNCHANGED <<parameters, payload, hydrateColumnNames,
                              nExecute, nBatch>>
          ELSE /\ pc' = "awaiting"
               /\ parameters' = q.parameters
               /\ hydrateColumnNames' = q.hydrateColumnNames
               /\ payload' = q.params
               /\ nBatch' = IF q.isBatch THEN nBatch + 1 ELSE nBatch
               /\ nExecute' = IF q.isBatch THEN nExecute ELSE nExecute + 1
               /\ err' = err
  /\ UNCHANGED <<params, config, response, output, fnIn, fnOut>>

\* the remote call resolves
Resolve(r) ==
  /\ pc = "awaiting"
  /\ response' = r
  /\ pc' = "resolved"
  /\ UNCHANGED <<params, config, args, parameters, payload, nExecute, nBatch,
                 output, hydrateColumnNames, err, fnIn, fnOut>>

\* the remote call rejects: the error reaches the caller unchanged
Reject ==
  /\ pc = "awaiting"
  /\ pc' = "failed"
  /\ err' = Throw("ServiceError")
  /\ UNCHANGED <<params, config, args, parameters, payload, nExecute, nBatch,
                 response, output, hydrateColumnNames, fnIn, fnOut>>

\* query after its await: formatResults
Resume ==
  /\ pc = "resolved"
  /\ LET out == formatResults(response, hydrateColumnNames,
                  Get(args[1], "includeResultMetadata") = Bool(TRUE))
     IN IF IsThrow(out)
          THEN pc' = "failed" /\ err' = out /\ output' = output
          ELSE pc' = "done" /\ output' = out /\ err' = err
  /\ UNCHANGED <<params, config, args, parameters, payload, nExecute, nBatch,
                 response, hydrateColumnNames, fnIn, fnOut>>

Next ==
  \/ \E p \in CtorParams : Construct(p)
  \/ \E a \in QueryArgs : Query(a)
  \/ \E r \in Responses(payload) : Resolve(r)
  \/ Reject
  \/ Resume

Spec == Init /\ [][Next]_vars

-----------------------------------------------------------------------------
(* formatRecords and annotateParams applied to drawn inputs *)

Idle ==
  /\ params = None /\ config = None /\ args = None /\ parameters = None
  /\ payload = None /\ nExecute = 0 /\ nBatch = 0 /\ response = None
  /\ output = None /\ hydrateColumnNames = None /\ err = None

IdleVars == <<params, config, args, parameters, payload, nExecute, nBatch,
              response, output, hydrateColumnNames, err>>

HydrateFields ==
  {NullField, Tagged("stringValue", Str("x")), Tagged("longValue", Whole(1))}

\* the labels a column may carry; a result set has at most as many columns
Labels == {"a", "b"}

\* result sets of w columns, with the column metadata or false
HydrateInputs ==
  UNION {
    {[f |-> "formatRecords", recs |-> Arr([r \in DOMAIN rows |-> Arr(rows[r])]),
      columns |-> c] :
       rows \in SeqsUpTo([1..w -> HydrateFields], MaxRows),
       c \in {Bool(FALSE)}
              \cup {Arr([i \in 1..w |-> Column(l[i])]) : l \in [1..w -> Labels]}} :
    w \in 1..Cardinality(Labels)}

InitHydrate == pc = "call" /\ fnIn \in HydrateInputs /\ fnOut = None /\ Idle

ApplyFormatRecords ==
  /\ pc = "call"
  /\ fnIn.f = "formatRecords"
  /\ fnOut' = formatRecords(fnIn.recs, fnIn.columns)
  /\ pc' = "return"
  /\ UNCHANGED fnIn
  /\ UNCHANGED IdleVars

NextHydrate == ApplyFormatRecords

SpecHydrate == InitHydrate /\ [][NextHydrate]_vars

ParamValues ==
  {Str("s"), Str(""), Bool(TRUE), Whole(1), Whole(0),
   Num("fin", 3), Num("nan", 0), Num("inf", 0), Num("big", 0),
   Null, Buffer, Function, Tagged("longValue", Whole(1))}

ParamKeys == {"id", "name", "value"}

\* the sequences of at most n distinct keys
KeySeqs(n) ==
  {ks \in SeqsUpTo(ParamKeys, n) :
     \A i, j \in DOMAIN ks : i # j => ks[i] # ks[j]}

ParamObjects ==
  UNION {{Obj(ks, f) : f \in [SeqToSet(ks) -> ParamValues]} : ks \in KeySeqs(MaxKeys)}

SmallParams ==
  {OneParam(1),
   Obj(<<"name", "value">>, [name |-> Str("id"), value |-> Tagged("longValue", Whole(1))]),
   Obj(<<"id">>, [id |-> Function]),
   Arr(<<OneParam(2)>>)}

AnnotateInputs ==
  {[f |-> "annotateParams", params |-> Arr(l)] :
     l \in {<<>>} \cup {<<o>> : o \in ParamObjects}
          \cup {<<Arr(<<o>>)>> : o \in ParamObjects}
          \cup {<<x, y>> : x \in SmallParams, y \in SmallParams}}

InitAnnotate == pc = "call" /\ fnIn \in AnnotateInputs /\ fnOut = None /\ Idle

ApplyAnnotateParams ==
  /\ pc = "call"
  /\ fnIn.f = "annotateParams"
  /\ fnOut' = annotateParams(fnIn.params)
  /\ pc' = "return"
  /\ UNCHANGED fnIn
  /\ UNCHANGED IdleVars

NextAnnotate == ApplyAnnotateParams

SpecAnnotate == InitAnnotate /\ [][NextAnnotate]_vars

-----------------------------------------------------------------------------
(* The escaper.  A string is the sequence of its characters. *)

POSTGRES_RESERVED_WORDS ==
  {<<"a", "e", "s", "1", "2", "8">>, <<"a", "e", "s", "2", "5", "6">>,
   <<"a", "l", "l">>,
   <<"a", "l", "l", "o", "w", "o", "v", "e", "r", "w", "r", "i", "t", "e">>,
   <<"a", "n", "a", "l", "y", "s", "e">>,
   <<"a", "n", "a", "l", "y", "z", "e">>, <<"a", "n", "d">>,
   <<"a", "n", "y">>, <<"a", "r", "r", "a", "y">>, <<"a", "s">>,
   <<"a", "s", "c">>,
   <<"a", "u", "t", "h", "o", "r", "i", "z", "a", "t", "i", "o", "n">>,
   <<"b", "a", "c", "k", "u", "p">>, <<"b", "e", "t", "w", "e", "e", "n">>,
   <<"b", "i", "n", "a", "r", "y">>,
   <<"b", "l", "a", "n", "k", "s", "a", "s", "n", "u", "l", "l">>,
   <<"b", "o", "t", "h">>, <<"b", "y", "t", "e", "d", "i", "c", "t">>,
   <<"c", "a", "s", "e">>, <<"c", "a", "s", "t">>,
   <<"c", "h", "e", "c", "k">>, <<"c", "o", "l", "l", "a", "t", "e">>,
   <<"c", "o", "l", "u", "m", "n">>,
   <<"c", "o", "n", "s", "t", "r", "a", "i", "n", "t">>,
   <<"c", "r", "e", "a", "t", "e">>,
   <<"c", "r", "e", "d", "e", "n", "t", "i", "a", "l", "s">>,
   <<"c", "r", "o", "s", "s">>,
   <<"c", "u", "r", "r", "e", "n", "t", "_", "d", "a", "t", "e">>,
   <<"c", "u", "r", "r", "e", "n", "t", "_", "t", "i", "m", "e">>,
   <<"c", "u", "r", "r", "e", "n", "t", "_", "t", "i", "m", "e", "s", "t", "a", "m", "p">>,
   <<"c", "u", "r", "r", "e", "n", "t", "_", "u", "s", "e", "r">>,
   <<"c", "u", "r", "r", "e", "n", "t", "_", "u", "s", "e", "r", "_", "i", "d">>,
   <<"d", "e", "f", "a", "u", "l", "t">>,
   <<"d", "e", "f", "e", "r", "r", "a", "b", "l", "e">>,
   <<"d", "e", "f", "l", "a", "t", "e">>, <<"d", "e", "f", "r", "a", "g">>,
   <<"d", "e", "l", "t", "a">>, <<"d", "e", "l", "t", "a", "3", "2", "k">>,
   <<"d", "e", "s", "c">>, <<"d", "i", "s", "a", "b", "l", "e">>,
   <<"d", "i", "s", "t", "i", "n", "c", "t">>, <<"d", "o">>,
   <<"e", "l", "s", "e">>,
   <<"e", "m", "p", "t", "y", "a", "s", "n", "u", "l", "l">>,
   <<"e", "n", "a", "b", "l", "e">>, <<"e", "n", "c", "o", "d", "e">>,
   <<"e", "n", "c", "r", "y", "p", "t">>,
   <<"e", "n", "c", "r", "y", "p", "t", "i", "o", "n">>, <<"e", "n", "d">>,
   <<"e", "x", "c", "e", "p", "t">>,
   <<"e", "x", "p", "l", "i", "c", "i", "t">>, <<"f", "a", "l", "s", "e">>,
   <<"f", "o", "r">>, <<"f", "o", "r", "e", "i", "g", "n">>,
   <<"f", "r", "e", "e", "z", "e">>, <<"f", "r", "o", "m">>,
   <<"f", "u", "l", "l">>,
   <<"g", "l", "o", "b", "a", "l", "d", "i", "c", "t", "2", "5", "6">>,
   <<"g", "l", "o", "b", "a", "l", "d", "i", "c", "t", "6", "4", "k">>,
   <<"g", "r", "a", "n", "t">>, <<"g", "r", "o", "u", "p">>,
   <<"g", "z", "i", "p">>, <<"h", "a", "v", "i", "n", "g">>,
   <<"i", "d", "e", "n", "t", "i", "t", "y">>,
   <<"i", "g", "n", "o", "r", "e">>, <<"i", "l", "i", "k", "e">>,
   <<"i", "n">>, <<"i", "n", "i", "t", "i", "a", "l", "l", "y">>,
   <<"i", "n", "n", "e", "r">>,
   <<"i", "n", "t", "e", "r", "s", "e", "c", "t">>, <<"i", "n", "t", "o">>,
   <<"i", "s">>, <<"i", "s", "n", "u", "l", "l">>, <<"j", "o", "i", "n">>,
   <<"l", "e", "a", "d", "i", "n", "g">>, <<"l", "e", "f", "t">>,
   <<"l", "i", "k", "e">>, <<"l", "i", "m", "i", "t">>,
   <<"l", "o", "c", "a", "l", "t", "i", "m", "e">>,
   <<"l", "o", "c", "a", "l", "t", "i", "m", "e", "s", "t", "a", "m", "p">>,
   <<"l", "u", "n">>, <<"l", "u", "n", "s">>, <<"l", "z", "o">>,
   <<"l", "z", "o", "p">>, <<"m", "i", "n", "u", "s">>,
   <<"m", "o", "s", "t", "l", "y", "1", "3">>,
   <<"m", "o", "s", "t", "l", "y", "3", "2">>,
   <<"m", "o", "s", "t", "l", "y", "8">>,
   <<"n", "a", "t", "u", "r", "a", "l">>, <<"n", "e", "w">>,
   <<"n", "o", "t">>, <<"n", "o", "t", "n", "u", "l", "l">>,
   <<"n", "u", "l", "l">>, <<"n", "u", "l", "l", "s">>, <<"o", "f", "f">>,
   <<"o", "f", "f", "l", "i", "n", "e">>, <<"o", "f", "f", "s", "e", "t">>,
   <<"o", "l", "d">>, <<"o", "n">>, <<"o", "n", "l", "y">>,
   <<"o", "p", "e", "n">>, <<"o", "r">>, <<"o", "r", "d", "e", "r">>,
   <<"o", "u", "t", "e", "r">>, <<"o", "v", "e", "r", "l", "a", "p", "s">>,
   <<"p", "a", "r", "a", "l", "l", "e", "l">>,
   <<"p", "a", "r", "t", "i", "t", "i", "o", "n">>,
   <<"p", "e", "r", "c", "e", "n", "t">>,
   <<"p", "l", "a", "c", "i", "n", "g">>,
   <<"p", "r", "i", "m", "a", "r", "y">>, <<"r", "a", "w">>,
   <<"r", "e", "a", "d", "r", "a", "t", "i", "o">>,
   <<"r", "e", "c", "o", "v", "e", "r">>,
   <<"r", "e", "f", "e", "r", "e", "n", "c", "e", "s">>,
   <<"r", "e", "j", "e", "c", "t", "l", "o", "g">>,
   <<"r", "e", "s", "o", "r", "t">>, <<"r", "e", "s", "t", "o", "r", "e">>,
   <<"r", "i", "g", "h", "t">>, <<"s", "e", "l", "e", "c", "t">>,
   <<"s", "e", "s", "s", "i", "o", "n", "_", "u", "s", "e", "r">>,
   <<"s", "i", "m", "i", "l", "a", "r">>, <<"s", "o", "m", "e">>,
   <<"s", "y", "s", "d", "a", "t", "e">>, <<"s", "y", "s", "t", "e", "m">>,
   <<"t", "a", "b", "l", "e">>, <<"t", "a", "g">>, <<"t", "d", "e", "s">>,
   <<"t", "e", "x", "t", "2", "5", "5">>,
   <<"t", "e", "x", "t", "3", "2", "k">>, <<"t", "h", "e", "n">>,
   <<"t", "o">>, <<"t", "o", "p">>,
   <<"t", "r", "a", "i", "l", "i", "n", "g">>, <<"t", "r", "u", "e">>,
   <<"t", "r", "u", "n", "c", "a", "t", "e", "c", "o", "l", "u", "m", "n", "s">>,
   <<"u", "n", "i", "o", "n">>, <<"u", "n", "i", "q", "u", "e">>,
   <<"u", "s", "e", "r">>, <<"u", "s", "i", "n", "g">>,
   <<"v", "e", "r", "b", "o", "s", "e">>, <<"w", "a", "l", "l", "e", "t">>,
   <<"w", "h", "e", "n">>, <<"w", "h", "e", "r", "e">>,
   <<"w", "i", "t", "h">>, <<"w", "i", "t", "h", "o", "u", "t">>}

LowerCaseLetters ==
  <<"a", "b", "c", "d", "e", "f", "g", "h", "i", "j", "k", "l", "m",
    "n", "o", "p", "q", "r", "s", "t", "u", "v", "w", "x", "y", "z">>

UpperCaseLetters ==
  <<"A", "B", "C", "D", "E", "F", "G", "H", "I", "J", "K", "L", "M",
    "N", "O", "P", "Q", "R", "S", "T", "U", "V", "W", "X", "Y", "Z">>

DecimalDigits == <<"0", "1", "2", "3", "4", "5", "6", "7", "8", "9">>

\* id.toLowerCase()
toLowerCase(id) ==
  [i \in 1..Len(id) |->
     IF \E n \in 1..26 : UpperCaseLetters[n] = id[i]
       THEN LowerCaseLetters[CHOOSE n \in 1..26 : UpperCaseLetters[n] = id[i]]
       ELSE id[i]]

\* /^[a-z_][a-z0-9_$]*$/i.test(id)
TestPattern(id) ==
  LET letters == SeqToSet(LowerCaseLetters) \cup SeqToSet(UpperCaseLetters)
  IN /\ Len(id) >= 1
     /\ id[1] \in letters \cup {"_"}
     /\ \A i \in 2..Len(id) :
          id[i] \in letters \cup SeqToSet(DecimalDigits) \cup {"_", "$"}

isValidIdentifier(id) ==
  IF toLowerCase(id) \in POSTGRES_RESERVED_WORDS THEN FALSE
  ELSE TestPattern(id)

\* str.replace(/c/g, with)
RECURSIVE replaceAll(_, _, _)
replaceAll(str, c, with) ==
  IF str = <<>> THEN <<>>
  ELSE (IF Head(str) = c THEN with ELSE <<Head(str)>>)
       \o replaceAll(Tail(str), c, with)

\* str.replace(c, with): the first occurrence only
RECURSIVE replaceFirst(_, _, _)
replaceFirst(str, c, with) ==
  IF str = <<>> THEN <<>>
  ELSE IF Head(str) = c THEN with \o Tail(str)
  ELSE <<Head(str)>> \o replaceFirst(Tail(str), c, with)

\* quoteIdentifier wrapping without escaping the internal quotes
quoteIdentifier_unescaped(id) == <<"\"">> \o id \o <<"\"">>

quoteIdentifier(id) ==
  LET escaped == replaceAll(id, "\"", <<"\"", "\"">>)
  IN <<"\"">> \o escaped \o <<"\"">>

ident(val) ==
  IF val.t \in {"null", "undefined"} THEN Throw("identifier required")
  ELSE IF isValidIdentifier(val.v) THEN val
  ELSE Str(quoteIdentifier(val.v))

\* the decimal numeral of a natural number
RECURSIVE Numeral(_)
Numeral(n) ==
  IF n < 10 THEN <<DecimalDigits[n + 1]>>
  ELSE Numeral(n \div 10) \o <<DecimalDigits[(n % 10) + 1]>>

\* String(val), for a value that is neither null, undefined nor an array
String(val) ==
  CASE val.t = "string" -> val.v
    [] val.t = "boolean" ->
         IF val.v THEN <<"t", "r", "u", "e">> ELSE <<"f", "a", "l", "s", "e">>
    [] val.t = "number" /\ val.k = "nan" -> <<"N", "a", "N">>
    [] val.t = "number" /\ val.k = "inf" ->
         <<"I", "n", "f", "i", "n", "i", "t", "y">>
    [] val.t = "number" /\ val.k = "big" -> <<"1", "e", "+", "2", "1">>
    [] val.t = "number" /\ val.k = "fin" ->
         LET a == IF val.m < 0 THEN 0 - val.m ELSE val.m
         IN (IF val.m < 0 THEN <<"-">> ELSE <<>>)
            \o Numeral(a \div 2)
            \o (IF a % 2 = 1 THEN <<".", "5">> ELSE <<>>)

\* literal's scalar branch with the g flag of the quote pattern missing
literalScalar_firstQuoteOnly(str) ==
  LET hasBackslash == \E i \in 1..Len(str) : str[i] = "\\"
      prefix == IF hasBackslash THEN <<"E">> ELSE <<>>
      quoted == replaceFirst(str, "'", <<"'", "'">>)
      escaped == IF hasBackslash
                   THEN replaceAll(quoted, "\\", <<"\\", "\\">>)
                   ELSE quoted
  IN prefix \o <<"'">> \o escaped \o <<"'">>

\* literal, from `const hasBackslash` on, for the stringified value str
literalScalar(str) ==
  LET hasBackslash == \E i \in 1..Len(str) : str[i] = "\\"
      prefix == IF hasBackslash THEN <<"E">> ELSE <<>>
      quoted == replaceAll(str, "'", <<"'", "'">>)
      escaped == IF hasBackslash
                   THEN replaceAll(quoted, "\\", <<"\\", "\\">>)
                   ELSE quoted
  IN prefix \o <<"'">> \o escaped \o <<"'">>

\* escapedValues.join(', ')
RECURSIVE join(_)
join(strs) ==
  IF strs = <<>> THEN <<>>
  ELSE IF Len(strs) = 1 THEN strs[1]
  ELSE strs[1] \o <<",", " ">> \o join(Tail(strs))

RECURSIVE literalChars(_)
literalChars(val) ==
  IF val.t \in {"null", "undefined"} THEN <<"N", "U", "L", "L">>
  ELSE IF IsArray(val)
    THEN <<"(">> \o join([i \in 1..Len(val.v) |-> literalChars(val.v[i])]) \o <<")">>
  ELSE literalScalar(String(val))

literal(val) == Str(literalChars(val))

IdentAlphabet == {"a", "s", "A", "S", "_", "$", "1", "\"", "-"}

\* identifiers of the unit tests
TestIdents ==
  {<<"\"", "a", "l", "r", "e", "a", "d", "y", "\"">>,
   <<"s", "e", "l", "e", "c", "t">>,
   <<"S", "e", "l", "e", "c", "t">>,
   <<"u", "s", "e", "r", "I", "d">>,
   <<"t", "a", "b", "l", "e", " ", "n", "a", "m", "e">>,
   <<"t", "a", "b", "l", "e", "\"", "n", "a", "m", "e">>}

IdentInputs ==
  {[f |-> "ident", x |-> v] :
     v \in {Null, Undefined}
           \cup {Str(n) : n \in SeqsUpTo(IdentAlphabet, MaxLen) \cup TestIdents}}

LiteralAlphabet == {"a", "'", "\\"}

LiteralScalars ==
  {Str(c) : c \in SeqsUpTo(LiteralAlphabet, MaxLen)}
    \cup {Whole(123), Whole(0), Whole(0 - 7), Num("fin", 3),
          Bool(TRUE), Bool(FALSE)}

\* the elements of the arrays given to literal: scalars, null and arrays
LiteralItems ==
  {Null, Str(<<"a">>), Str(<<"'">>), Str(<<"\\">>)}
    \cup {Arr(a) : a \in SeqsUpTo({Null, Str(<<"a">>)}, MaxItems)}

LiteralInputs ==
  {[f |-> "literal", x |-> v] :
     v \in {Null, Undefined} \cup LiteralScalars
           \cup {Arr(a) : a \in SeqsUpTo(LiteralItems, MaxItems)}}

InitEscape ==
  pc = "call" /\ fnIn \in IdentInputs \cup LiteralInputs /\ fnOut = None /\ Idle

ApplyIdent ==
  /\ pc = "call"
  /\ fnIn.f = "ident"
  /\ fnOut' = ident(fnIn.x)
  /\ pc' = "return"
  /\ UNCHANGED fnIn
  /\ UNCHANGED IdleVars

ApplyLiteral ==
  /\ pc = "call"
  /\ fnIn.f = "literal"
  /\ fnOut' = literal(fnIn.x)
  /\ pc' = "return"
  /\ UNCHANGED fnIn
  /\ UNCHANGED IdleVars

NextEscape == ApplyIdent \/ ApplyLiteral

SpecEscape == InitEscape /\ [][NextEscape]_vars

-----------------------------------------------------------------------------
(* Properties of the query call *)

CallMade == pc \in {"awaiting", "resolved", "done", "failed"}
Has(o, key) == key \in DOMAIN o.v

\* the parameters as the caller gave them, in either call form
GivenParameters(a) ==
  IF a[1].t = "object" THEN Get(a[1], "parameters") ELSE a[2]

NoSqlGiven(a) ==
  ~(a[1].t = "string" \/ (a[1].t = "object" /\ Get(a[1], "sql").t = "string"))

BadHydrateGiven(a) ==
  Get(a[1], "hydrateColumnNames").t # "boolean"
    /\ Truthy(Get(a[1], "hydrateColumnNames"))

BadParametersGiven(a) ==
  \/ GivenParameters(a).t = "null"
  \/ GivenParameters(a).t \notin {"object", "array"} /\ Truthy(GivenParameters(a))

\* the wire tag the documentation gives a value, "" when it has none
TagOf(val) ==
  CASE val.t = "string" -> "stringValue"
    [] val.t = "boolean" -> "booleanValue"
    [] val.t = "number" /\ val.k = "fin" /\ val.m % 2 = 0 -> "longValue"
    [] val.t = "number" /\ val.k \in {"fin", "inf", "big"} -> "doubleValue"
    [] val.t = "null" -> "isNull"
    [] val.t = "buffer" -> "blobValue"
    [] OTHER -> ""

PreShaped(p) ==
  /\ p.t = "object"
  /\ SeqToSet(p.keys) = {"name", "value"}
  /\ Truthy(p.v["name"]) /\ Truthy(p.v["value"])

\* some plain object in x has a value that has no tag
RECURSIVE HasUnsupported(_)
HasUnsupported(x) ==
  CASE x.t = "array" -> \E i \in 1..Len(x.v) : HasUnsupported(x.v[i])
    [] x.t = "object" ->
         ~PreShaped(x) /\ \E k \in DOMAIN x.v : TagOf(x.v[k]) = ""
    [] OTHER -> FALSE

BadDatabaseGiven(a) ==
  Get(a[1], "database").t # "string" /\ Truthy(Get(a[1], "database"))

NoDatabaseGiven(cfg, a) ==
  /\ Get(a[1], "database").t # "string"
  /\ ~Truthy(Get(a[1], "database"))
  /\ cfg.database = Null

FailsBeforeDatabase(a) ==
  \/ NoSqlGiven(a)
  \/ BadHydrateGiven(a)
  \/ BadParametersGiven(a)
  \/ HasUnsupported(GivenParameters(a))

FailsValidation(cfg, a) ==
  \/ FailsBeforeDatabase(a)
  \/ BadDatabaseGiven(a)
  \/ NoDatabaseGiven(cfg, a)

\* C1: the request handed to the remote call never has both `parameters` and
\* `parameterSets`, and has neither when the supplied parameter list is empty.
C1_ParametersExclusive ==
  payload # None =>
    /\ ~(Has(payload, "parameters") /\ Has(payload, "parameterSets"))
    /\ (Len(parameters.v) = 0 =>
          ~Has(payload, "parameters") /\ ~Has(payload, "parameterSets"))

\* C2: construction keeps the hydrateColumnNames boolean the caller supplied
\* and sets true when none is supplied; a call that gives no per-call
\* hydrateColumnNames hydrates exactly when the configured value is true.
C2_HydrateDefault ==
  /\ (config # None /\ Get(params, "hydrateColumnNames").t = "boolean") =>
       config.hydrateColumnNames = Get(params, "hydrateColumnNames")
  /\ (config # None /\ ~Has(params, "hydrateColumnNames")) =>
       config.hydrateColumnNames = Bool(TRUE)
  /\ (hydrateColumnNames # None /\ Get(args[1], "hydrateColumnNames") = Undefined) =>
       hydrateColumnNames = config.hydrateColumnNames

\* C3: a call that passes validation performs exactly one remote call:
\* batchExecuteStatement iff the annotated parameters are non-empty and their
\* first element is a sequence, executeStatement otherwise; never both, never
\* either more than once.
C3_OneRemoteCall ==
  /\ nExecute + nBatch <= 1
  /\ (CallMade /\ ~FailsValidation(config, args)) =>
       /\ parameters # None
       /\ nExecute + nBatch = 1
       /\ nBatch = 1 <=> (Len(parameters.v) > 0 /\ parameters.v[1].t = "array")

C3_Witness ==
  /\ pc = "done" /\ nBatch = 1 /\ nExecute = 0
  /\ Len(parameters.v) = 2

C5_OutputShape ==
  (response # None /\ pc # "resolved") =>
    /\ pc = "done"
    /\ Get(output, "numberOfRecordsUpdated") = Get(response, "numberOfRecordsUpdated")
    /\ Len(Get(output, "records").v) = Len(Get(response, "records").v)
    /\ Has(output, "columnMetadata")
         <=> (Get(args[1], "includeResultMetadata") = Bool(TRUE))
    /\ Has(output, "columnMetadata") =>
         Get(output, "columnMetadata") = Get(response, "columnMetadata")

\* C7 as stated: the payload's database is the per-call database whenever one
\* is given, otherwise the configured default; a per-call database that is
\* given but is not a string fails the call; the call fails with
\* "No 'database' provided." when neither supplies one.
C7_DatabaseAsStated ==
  LET d == Get(args[1], "database")
  IN CallMade =>
       /\ (payload # None /\ d # Undefined) => Get(payload, "database") = d
       /\ (payload # None /\ d = Undefined) =>
            Get(payload, "database") = config.database
       /\ (d # Undefined /\ d.t # "string") => pc = "failed" /\ payload = None
       /\ (d = Undefined /\ config.database = Null) =>
            /\ pc = "failed" /\ payload = None
            /\ ~FailsBeforeDatabase(args) => err.msg = "No 'database' provided."

\* C7, amended: the payload's database is the per-call database whenever it
\* is a string, otherwise the configured default; a per-call database that
\* is truthy but not a string fails the call with "'database' must be a
\* string."; a falsy per-call database that is not a string (0, false,
\* null) counts as not given; the call fails with "No 'database' provided."
\* when neither supplies one.
C7_Database ==
  LET d == Get(args[1], "database")
  IN CallMade =>
       /\ (payload # None /\ d.t = "string") => Get(payload, "database") = d
       /\ (payload # None /\ d.t # "string") =>
            ~Truthy(d) /\ Get(payload, "database") = config.database
       /\ BadDatabaseGiven(args) =>
            /\ pc = "failed" /\ payload = None
            /\ ~FailsBeforeDatabase(args) => err.msg = "'database' must be a string."
       /\ NoDatabaseGiven(config, args) =>
            /\ pc = "failed" /\ payload = None
            /\ ~FailsBeforeDatabase(args) => err.msg = "No 'database' provided."

C7_Witness ==
  /\ pc = "awaiting"
  /\ Get(args[1], "database") = Whole(0)
  /\ Get(payload, "database") = Str("db")

-----------------------------------------------------------------------------
(* Properties of formatRecords and annotateParams *)

\* the value a well-formed field carries: null, or the value under its one key
ValueOf(field) ==
  IF field = NullField THEN Null ELSE field.v[field.keys[1]]

WellFormedField(field) ==
  \/ field = NullField
  \/ Len(field.keys) = 1 /\ field.keys[1] # "isNull" /\ field.v[field.keys[1]] # Null

WellFormedRecords(recs) ==
  /\ Len(recs.v) > 0
  /\ \A r \in 1..Len(recs.v) :
       /\ Len(recs.v[r].v) = Len(recs.v[1].v)
       /\ \A i \in 1..Len(recs.v[r].v) : WellFormedField(recs.v[r].v[i])

\* the non-null fields of each column carry one tag
OneTagPerColumn(recs) ==
  \A r1, r2 \in 1..Len(recs.v) : \A i \in 1..Len(recs.v[1].v) :
    (recs.v[r1].v[i] # NullField /\ recs.v[r2].v[i] # NullField) =>
      recs.v[r1].v[i].keys = recs.v[r2].v[i].keys

LabelAt(columns, i) == columns.v[i].v["label"].v

\* no later column has the label of column i
LastWithLabel(columns, i) ==
  \A j \in 1..Len(columns.v) : j > i => LabelAt(columns, j) # LabelAt(columns, i)

DistinctLabels(columns) ==
  \A i \in 1..Len(columns.v) : LastWithLabel(columns, i)

\* the output holds the cells of recs: arrays in column order without
\* columns, objects keyed by the column labels with them
CellsHydrated(recs, columns, out) ==
  /\ out.t = "array"
  /\ Len(out.v) = Len(recs.v)
  /\ \A r \in 1..Len(recs.v) :
       IF columns = Bool(FALSE)
         THEN /\ out.v[r].t = "array"
              /\ Len(out.v[r].v) = Len(recs.v[r].v)
              /\ \A i \in 1..Len(recs.v[r].v) :
                   out.v[r].v[i] = ValueOf(recs.v[r].v[i])
         ELSE /\ out.v[r].t = "object"
              /\ DOMAIN out.v[r].v =
                   {LabelAt(columns, i) : i \in 1..Len(recs.v[r].v)}
              /\ \A i \in 1..Len(recs.v[r].v) :
                   LastWithLabel(columns, i) =>
                     out.v[r].v[LabelAt(columns, i)] = ValueOf(recs.v[r].v[i])

Hydrated == pc = "return" /\ fnIn.f = "formatRecords"

\* C6 as stated (taken with distinct column labels): for every non-empty
\* result set whose fields are {isNull: true} or carry exactly one populated
\* tag, every output cell is
\* null for a null field and otherwise the value under the field's key,
\* whatever the order of null and non-null rows; objects keyed by the labels
\* with hydration, arrays in column order without.
C6_CellsAsStated ==
  (Hydrated /\ WellFormedRecords(fnIn.recs)
     /\ (fnIn.columns # Bool(FALSE) => DistinctLabels(fnIn.columns))) =>
    CellsHydrated(fnIn.recs, fnIn.columns, fnOut)

\* C6, amended: the same, provided the non-null fields of each column all
\* carry the same tag (the tag found in a column's first non-null field is
\* used for the rest of the column); with hydration a label that several
\* columns share holds the value of the last of them.
C6_Cells ==
  (Hydrated /\ WellFormedRecords(fnIn.recs) /\ OneTagPerColumn(fnIn.recs)) =>
    CellsHydrated(fnIn.recs, fnIn.columns, fnOut)

C6_Witness ==
  /\ Hydrated
  /\ fnIn.columns = Arr(<<Column("a"), Column("b")>>)
  /\ Len(fnIn.recs.v) = 2
  /\ fnIn.recs.v[1].v[1] = NullField
  /\ fnIn.recs.v[2].v[1] = Tagged("stringValue", Str("x"))
  /\ fnOut.t = "array"
  /\ fnOut.v[1].v["a"] = Null
  /\ fnOut.v[2].v["a"] = Str("x")

\* the Named Parameter of key k and value val
Named(k, val) ==
  Obj(<<"name", "value">>,
      [name |-> Str(k), value |-> Tagged(TagOf(val), val)])

\* what the documentation makes of the entries of a parameter sequence
RECURSIVE Annotated(_)
Annotated(s) ==
  IF s = <<>> THEN <<>>
  ELSE (IF Head(s).t = "array" THEN <<Arr(Annotated(Head(s).v))>>
        ELSE IF PreShaped(Head(s)) THEN <<Head(s)>>
        ELSE [i \in 1..Len(Head(s).keys) |->
                Named(Head(s).keys[i], Head(s).v[Head(s).keys[i]])])
       \o Annotated(Tail(s))

\* the keys of plain objects in x whose value has no tag
RECURSIVE UnsupportedKeys(_)
UnsupportedKeys(x) ==
  CASE x.t = "array" -> UNION {UnsupportedKeys(x.v[i]) : i \in 1..Len(x.v)}
    [] x.t = "object" ->
         IF PreShaped(x) THEN {} ELSE {k \in DOMAIN x.v : TagOf(x.v[k]) = ""}
    [] OTHER -> {}

\* C8: every key of a plain object becomes exactly one Named Parameter whose
\* tag follows the precedence string, boolean, integer, double, null, binary;
\* a nested sequence is annotated into a nested sequence; a pre-shaped
\* {name, value} pair with both truthy passes through unchanged; a value
\* matching no tag fails with an error naming the offending key.
C8_Annotation ==
  (pc = "return" /\ fnIn.f = "annotateParams") =>
    IF HasUnsupported(fnIn.params)
      THEN /\ IsThrow(fnOut)
           /\ \E k \in UnsupportedKeys(fnIn.params) :
                fnOut.msg = "'" \o k \o "'' is an invalid type"
      ELSE fnOut = Arr(Annotated(fnIn.params.v))

C8_Witness ==
  /\ pc = "return"
  /\ fnIn.params = Arr(<<Obj(<<"id", "value">>,
                          [id |-> Whole(1), value |-> Num("fin", 3)])>>)
  /\ fnOut = Arr(<<Named("id", Whole(1)), Named("value", Num("fin", 3))>>)
  /\ fnOut.v[1].v["value"].keys = <<"longValue">>
  /\ fnOut.v[2].v["value"].keys = <<"doubleValue">>

-----------------------------------------------------------------------------
(* Properties of the escaper *)

IdentStartChars ==
  {"a", "b", "c", "d", "e", "f", "g", "h", "i", "j", "k", "l", "m", "n", "o",
   "p", "q", "r", "s", "t", "u", "v", "w", "x", "y", "z",
   "A", "B", "C", "D", "E", "F", "G", "H", "I", "J", "K", "L", "M", "N", "O",
   "P", "Q", "R", "S", "T", "U", "V", "W", "X", "Y", "Z", "_"}

IdentPartChars ==
  IdentStartChars \cup {"0", "1", "2", "3", "4", "5", "6", "7", "8", "9", "$"}

\* name matches ^[a-zA-Z_][a-zA-Z0-9_$]*$
MatchesIdentPattern(name) ==
  /\ name # <<>>
  /\ Head(name) \in IdentStartChars
  /\ \A i \in 2..Len(name) : name[i] \in IdentPartChars

\* c is the character l or its upper-case form
SameLetter(c, l) ==
  c = l \/ \E n \in 1..26 : LowerCaseLetters[n] = l /\ UpperCaseLetters[n] = c

\* the lowercased name is a reserved word
IsReserved(name) ==
  \E w \in POSTGRES_RESERVED_WORDS :
    Len(w) = Len(name) /\ \A i \in 1..Len(w) : SameLetter(name[i], w[i])

CountOf(str, c, upto) == Cardinality({i \in 1..upto : str[i] = c})

\* out is str between two q characters with every q inside doubled
IsQuotedWith(out, str, q) ==
  /\ Len(out) = Len(str) + CountOf(str, q, Len(str)) + 2
  /\ out[1] = q /\ out[Len(out)] = q
  /\ \A i \in 1..Len(str) :
       LET at == 1 + i + CountOf(str, q, i - 1)
       IN out[at] = str[i] /\ (str[i] = q => out[at + 1] = q)

\* C9: ident fails with 'identifier required' for null and undefined; it
\* returns a string unchanged iff the string matches the pattern and its
\* lowercased form is not reserved; otherwise it returns the name in one pair
\* of double quotes with every internal double quote doubled, so that
\* "already" in quotes becomes """already""".
C9_Ident ==
  (pc = "return" /\ fnIn.f = "ident") =>
    /\ fnIn.x.t \in {"null", "undefined"} => fnOut = Throw("identifier required")
    /\ fnIn.x.t = "string" =>
         /\ fnOut.t = "string"
         /\ (fnOut = fnIn.x) <=>
              (MatchesIdentPattern(fnIn.x.v) /\ ~IsReserved(fnIn.x.v))
         /\ fnOut # fnIn.x => IsQuotedWith(fnOut.v, fnIn.x.v, "\"")
    /\ fnIn.x = Str(<<"\"", "a", "l", "r", "e", "a", "d", "y", "\"">>) =>
         fnOut = Str(<<"\"", "\"", "\"", "a", "l", "r", "e", "a", "d", "y",
                       "\"", "\"", "\"">>)

C9_Witness ==
  /\ pc = "return"
  /\ fnIn = [f |-> "ident", x |-> Str(<<"\"", "a", "l", "r", "e", "a", "d", "y", "\"">>)]
  /\ Len(fnOut.v) = 13

\* the characters a scalar's character c is written as in a literal
LiteralChar(c, doubleBackslash) ==
  IF c = "'" THEN <<"'", "'">>
  ELSE IF c = "\\" /\ doubleBackslash THEN <<"\\", "\\">>
  ELSE <<c>>

RECURSIVE Flatten(_)
Flatten(ss) == IF ss = <<>> THEN <<>> ELSE Head(ss) \o Flatten(Tail(ss))

\* the literal of the stringified scalar str
ScalarLiteral(str) ==
  LET bs == "\\" \in SeqToSet(str)
  IN (IF bs THEN <<"E">> ELSE <<>>)
     \o <<"'">> \o Flatten([i \in 1..Len(str) |-> LiteralChar(str[i], bs)])
     \o <<"'">>

RECURSIVE ExpectedLiteral(_)
ExpectedLiteral(val) ==
  CASE val.t \in {"null", "undefined"} -> <<"N", "U", "L", "L">>
    [] val.t = "array" ->
         <<"(">>
         \o Flatten([i \in 1..Len(val.v) |->
                      (IF i > 1 THEN <<",", " ">> ELSE <<>>)
                      \o ExpectedLiteral(val.v[i])])
         \o <<")">>
    [] OTHER -> ScalarLiteral(String(val))

\* C10: literal returns NULL for null and undefined; for a sequence the
\* recursively escaped elements joined by ', ' in parentheses, () when empty;
\* for a scalar the stringified value in single quotes with every single
\* quote doubled and, exactly when it contains a backslash, every backslash
\* doubled and the prefix E.
C10_Literal ==
  (pc = "return" /\ fnIn.f = "literal") =>
    /\ fnOut = Str(ExpectedLiteral(fnIn.x))
    /\ fnIn.x.t \in {"null", "undefined"} => fnOut = Str(<<"N", "U", "L", "L">>)
    /\ fnIn.x = Arr(<<>>) => fnOut = Str(<<"(", ")">>)
    /\ fnIn.x.t \notin {"null", "undefined", "array"} =>
         LET str == String(fnIn.x)
             bs == "\\" \in SeqToSet(str)
         IN /\ (Head(fnOut.v) = "E") <=> bs
            /\ IsQuotedWith(IF bs THEN Tail(fnOut.v) ELSE fnOut.v,
                            IF bs THEN replaceAll(str, "\\", <<"\\", "\\">>)
                            ELSE str, "'")

C10_Witness ==
  /\ pc = "return"
  /\ fnIn = [f |-> "literal", x |-> Str(<<"'", "\\", "'">>)]
  /\ fnOut = Str(<<"E", "'", "'", "'", "\\", "\\", "'", "'", "'">>)

-----------------------------------------------------------------------------
(* Concurrent query calls on one client.  Each call has its own locals: pc, *)
(* args, parameters, payload, the counters, response, output,               *)
(* hydrateColumnNames and err are functions of the call.  A call runs       *)
(* without interruption up to its await and again after it, so calls        *)
(* interleave only around the remote call.                                  *)

Calls == 1..MaxCalls

\* the configuration with the call's options assigned into it
\* (Object.assign with config as its target)
configAfterQuery_assignInto(cfg, a) ==
  [cfg EXCEPT !.database =
     IF TypeOf(Get(a[1], "database")) = "string" THEN Get(a[1], "database")
     ELSE @]

\* the configuration after query's synchronous part: query and prepareParams
\* only read config; every Object.assign has a fresh object as its target
configAfterQuery(cfg, a) == cfg

\* the constructor arguments a client was built from
ClientParams ==
  {p \in CtorParams : ~IsThrow(MakeConfig(p)) /\ Get(p, "options") = Undefined}

\* the calls made concurrently
ConcurrentArgs ==
  {<<SQL, OneParam(1)>>,
   <<SQL, Str("id")>>,
   <<Pick(<<"sql", "database">>, [sql |-> SQL, database |-> Str("other")]),
     Undefined>>,
   <<Pick(<<"sql", "parameters", "hydrateColumnNames", "includeResultMetadata">>,
          [sql |-> SQL,
           parameters |-> Arr(<<Arr(<<OneParam(1)>>), Arr(<<OneParam(2)>>)>>),
           hydrateColumnNames |-> Bool(FALSE),
           includeResultMetadata |-> Bool(TRUE)]),
     Undefined>>}

\* the responses a concurrent call may receive for the request req
ConcurrentResponses(req) ==
  {Pick(<<"columnMetadata", "numberOfRecordsUpdated", "records">>,
        [columnMetadata |->
           IF Get(req, "includeResultMetadata") = Bool(TRUE)
             THEN Arr(<<Column("col")>>) ELSE None,
         numberOfRecordsUpdated |-> Whole(Len(rows)),
         records |-> Arr([i \in DOMAIN rows |-> Arr(<<rows[i]>>)])]) :
     rows \in {<<Tagged("stringValue", Str("x"))>>,
               <<NullField, Tagged("longValue", Whole(1))>>}}

InitConcurrent ==
  /\ params \in ClientParams
  /\ config = MakeConfig(params)
  /\ pc = [c \in Calls |-> "ready"]
  /\ args = [c \in Calls |-> None]
  /\ parameters = [c \in Calls |-> None]
  /\ payload = [c \in Calls |-> None]
  /\ nExecute = [c \in Calls |-> 0]
  /\ nBatch = [c \in Calls |-> 0]
  /\ response = [c \in Calls |-> None]
  /\ output = [c \in Calls |-> None]
  /\ hydrateColumnNames = [c \in Calls |-> None]
  /\ err = [c \in Calls |-> None]
  /\ fnIn = None
  /\ fnOut = None

\* call c: query(config, ...a) up to its await
QueryCall(c, a) ==
  /\ pc[c] = "ready"
  /\ args' = [args EXCEPT ![c] = a]
  /\ config' = configAfterQuery(config, a)
  /\ LET q == assemble(config, a)
     IN IF IsThrow(q)
          THEN /\ pc' = [pc EXCEPT ![c] = "failed"]
               /\ err' = [err EXCEPT ![c] = q]
               /\ UNCHANGED <<parameters, payload, hydrateColumnNames,
                              nExecute, nBatch>>
          ELSE /\ pc' = [pc EXCEPT ![c] = "awaiting"]
               /\ parameters' = [parameters EXCEPT ![c] = q.parameters]
               /\ hydrateColumnNames' =
                    [hydrateColumnNames EXCEPT ![c] = q.hydrateColumnNames]
               /\ payload' = [payload EXCEPT ![c] = q.params]
               /\ nBatch' = [nBatch EXCEPT ![c] = IF q.isBatch THEN @ + 1 ELSE @]
               /\ nExecute' = [nExecute EXCEPT ![c] = IF q.isBatch THEN @ ELSE @ + 1]
               /\ err' = err
  /\ UNCHANGED <<params, response, output, fnIn, fnOut>>

\* the remote call of call c resolves
ResolveCall(c, r) ==
  /\ pc[c] = "awaiting"
  /\ response' = [response EXCEPT ![c] = r]
  /\ pc' = [pc EXCEPT ![c] = "resolved"]
  /\ UNCHANGED <<params, config, args, parameters, payload, nExecute, nBatch,
                 output, hydrateColumnNames, err, fnIn, fnOut>>

\* the remote call of call c rejects
RejectCall(c) ==
  /\ pc[c] = "awaiting"
  /\ pc' = [pc EXCEPT ![c] = "failed"]
  /\ err' = [err EXCEPT ![c] = Throw("ServiceError")]
  /\ UNCHANGED <<params, config, args, parameters, payload, nExecute, nBatch,
                 response, output, hydrateColumnNames, fnIn, fnOut>>

\* call c after its await: formatResults, with its own field map
ResumeCall(c) ==
  /\ pc[c] = "resolved"
  /\ LET out == formatResults(response[c], hydrateColumnNames[c],
                  Get(args[c][1], "includeResultMetadata") = Bool(TRUE))
     IN IF IsThrow(out)
          THEN /\ pc' = [pc EXCEPT ![c] = "failed"]
               /\ err' = [err EXCEPT ![c] = out]
               /\ output' = output
          ELSE /\ pc' = [pc EXCEPT ![c] = "done"]
               /\ output' = [output EXCEPT ![c] = out]
               /\ err' = err
  /\ UNCHANGED <<params, config, args, parameters, payload, nExecute, nBatch,
                 response, hydrateColumnNames, fnIn, fnOut>>

NextConcurrent ==
  \/ \E c \in Calls : \E a \in ConcurrentArgs : QueryCall(c, a)
  \/ \E c \in Calls : \E r \in ConcurrentResponses(payload[c]) : ResolveCall(c, r)
  \/ \E c \in Calls : RejectCall(c)
  \/ \E c \in Calls : ResumeCall(c)

SpecConcurrent == InitConcurrent /\ [][NextConcurrent]_vars

-----------------------------------------------------------------------------
(* Properties of concurrent calls *)

\* the client as the constructor left it
BuiltConfig == MakeConfig(params)

\* C11: however the calls interleave around their remote calls, the client
\* configuration stays as constructed, and each call has the request and the
\* output that the same call has when it runs alone on that client: the
\* request assembled from its own arguments and the constructed
\* configuration, the output formatted from its own response.
C11_CallsIsolated ==
  /\ config = BuiltConfig
  /\ \A c \in Calls :
       /\ pc[c] # "ready" =>
            LET alone == assemble(BuiltConfig, args[c])
            IN IF IsThrow(alone)
                 THEN pc[c] = "failed" /\ err[c] = alone /\ payload[c] = None
                 ELSE /\ payload[c] = alone.params
                      /\ parameters[c] = alone.parameters
                      /\ nExecute[c] + nBatch[c] = 1
       /\ pc[c] = "done" =>
            output[c] = formatResults(response[c],
                          parseHydrate(BuiltConfig, args[c]),
                          Get(args[c][1], "includeResultMetadata") = Bool(TRUE))

\* two calls in flight at once, the later one finished first
C11_Witness ==
  /\ pc[1] = "awaiting"
  /\ pc[2] = "done"
  /\ Get(args[1][1], "database") = Str("other")
  /\ args[2] = <<SQL, OneParam(1)>>
  /\ Get(payload[1], "database") = Str("other")
  /\ Get(payload[2], "database") = config.database

====
